---------------------------- MODULE Spec2Model ----------------------------
(***************************************************************************)
(* A model of temp.py: the documentation pipeline process_documentation    *)
(* (fetch -> score -> analyze -> visuals -> compose -> score, then the     *)
(* aggregate metric, then one save_to_file per improved document) and the  *)
(* pure function compute_readability.                                      *)
(*                                                                         *)
(* Texts are sequences of characters.             Readability scores are   *)
(* exact fractions [num, den] in lowest terms, or NaN (0/0).               *)
(***************************************************************************)
EXTENDS Integers, Sequences, FiniteSets, TLC

\* ------------------------------------------------------------- bounds ---
\* Longest input list of URLs the pipeline is run on.
MaxUrls == 3
\* Longest text compute_readability is applied to on its own.
MaxLen == 6
\* Most writes that fail part-way in one run.
MaxWriteErrors == 1

\* --------------------------------------------------------- characters ---
\* The characters str.strip() and str.split() treat as whitespace: those
\* str.isspace() holds of.  A character with no TLA+ escape is written as
\* its Python escape.
Whitespace ==
    {"\t", "\n", "\\x0b", "\f", "\r", "\\x1c", "\\x1d", "\\x1e", "\\x1f", " ",
     "\\x85", "\\xa0", "\\u1680", "\\u2000", "\\u2001", "\\u2002", "\\u2003",
     "\\u2004", "\\u2005", "\\u2006", "\\u2007", "\\u2008", "\\u2009", "\\u200a",
     "\\u2028", "\\u2029", "\\u202f", "\\u205f", "\\u3000"}

\* The delimiter of content.split(".").
Period == "."

\* The characters texts are drawn from: a letter, three kinds of whitespace
\* and the period.
Alphabet == {"a", " ", "\n", "\f", Period}

\* All texts over Alphabet of length at most n.
TextsUpTo(n) == UNION {[1..k -> Alphabet] : k \in 0..n}

\* ------------------------------------------------------- exact numbers ---
\* np.mean of an empty list (0/0), and every score computed from it.
NaN == [num |-> 0, den |-> 0]

RECURSIVE GCD(_, _)
GCD(a, b) == IF b = 0 THEN a ELSE GCD(b, a % b)

\* The fraction p/q (p >= 0, q > 0) in lowest terms.
Frac(p, q) == LET g == GCD(p, q) IN [num |-> p \div g, den |-> q \div g]

FracAdd(x, y) == Frac(x.num * y.den + y.num * x.den, x.den * y.den)

\* (x - y) ** 2
FracSqDiff(x, y) ==
    LET d == x.num * y.den - y.num * x.den
    IN  Frac(d * d, x.den * y.den * x.den * y.den)

RECURSIVE SumInts(_)
SumInts(xs) == IF xs = <<>> THEN 0 ELSE Head(xs) + SumInts(Tail(xs))

\* np.mean over a list of integers: NaN for the empty list.
np_mean(xs) == IF Len(xs) = 0 THEN NaN ELSE Frac(SumInts(xs), Len(xs))

\* ------------------------------------------------------ str operations ---
\* The index of the first period of s, 0 when there is none.
FirstPeriod(s) ==
    IF \E i \in 1..Len(s) : s[i] = Period
    THEN CHOOSE i \in 1..Len(s) : s[i] = Period /\ \A j \in 1..(i - 1) : s[j] # Period
    ELSE 0

\* content.split("."): the segments between periods, empty ones included.
RECURSIVE str_split_period(_)
str_split_period(s) ==
    LET i == FirstPeriod(s)
    IN  IF i = 0 THEN <<s>>
        ELSE <<SubSeq(s, 1, i - 1)>> \o str_split_period(SubSeq(s, i + 1, Len(s)))

RECURSIVE str_lstrip(_)
str_lstrip(s) ==
    IF s # <<>> /\ Head(s) \in Whitespace THEN str_lstrip(Tail(s)) ELSE s

RECURSIVE str_rstrip(_)
str_rstrip(s) ==
    IF s # <<>> /\ s[Len(s)] \in Whitespace
    THEN str_rstrip(SubSeq(s, 1, Len(s) - 1)) ELSE s

\* s.strip()
str_strip(s) == str_rstrip(str_lstrip(s))

\* The length of the longest whitespace-free prefix of s.
RECURSIVE WordLen(_)
WordLen(s) ==
    IF s = <<>> \/ Head(s) \in Whitespace THEN 0 ELSE 1 + WordLen(Tail(s))

\* sentence.split(): the maximal whitespace-free runs of s.
RECURSIVE str_split(_)
str_split(s) ==
    LET t == str_lstrip(s)
        n == WordLen(t)
    IN  IF t = <<>> THEN <<>>
        ELSE <<SubSeq(t, 1, n)>> \o str_split(SubSeq(t, n + 1, Len(t)))

\* [f(x) for x in xs]
RECURSIVE StripAll(_)
StripAll(xs) ==
    IF xs = <<>> THEN <<>> ELSE <<str_strip(Head(xs))>> \o StripAll(Tail(xs))

\* sentences = [s.strip() for s in content.split(".") if s.strip()]
Sentences(content) ==
    SelectSeq(StripAll(str_split_period(content)), LAMBDA s : s # <<>>)

\* The variant that keeps the empty segments (the filter "if s.strip()" lost).
compute_readability_unfiltered(content) ==
    LET sentences == StripAll(str_split_period(content))
    IN  np_mean([k \in 1..Len(sentences) |-> Len(str_split(sentences[k]))])

\* compute_readability: the mean number of words per sentence.
compute_readability(content) ==
    LET sentences == Sentences(content)
    IN  np_mean([k \in 1..Len(sentences) |-> Len(str_split(sentences[k]))])


\* --------------------------------------------------------- the metric ---
\* The values of a sequence.
Range(xs) == {xs[j] : j \in 1..Len(xs)}

RECURSIVE SumSqDiff(_, _)
SumSqDiff(a, b) ==
    IF a = <<>> THEN Frac(0, 1)
    ELSE FracAdd(FracSqDiff(Head(a), Head(b)), SumSqDiff(Tail(a), Tail(b)))

\* sklearn's input validation: mean_squared_error raises ValueError on
\* sequences of different lengths, on empty sequences and on a NaN entry.
MetricRaises(y_true, y_pred) ==
    \/ Len(y_true) # Len(y_pred)
    \/ Len(y_true) = 0
    \/ NaN \in Range(y_true) \cup Range(y_pred)

\* The variant that sums the squared differences and never averages them.
mean_squared_error_sum(y_true, y_pred) == SumSqDiff(y_true, y_pred)

\* mean_squared_error on inputs it accepts: the mean of (y_true[j] - y_pred[j])^2.
mean_squared_error(y_true, y_pred) ==
    LET t == SumSqDiff(y_true, y_pred)
    IN  Frac(t.num, t.den * Len(y_true))

\* ------------------------------------------------------- the pipeline ---
\* The bodies a fetch can return: two sentences of 2 and 1 words, and an
\* empty body.
Contents == { <<"a", " ", "a", ".", "a">>, <<>> }

\* The completions the model API can return: one one-word sentence, and the
\* empty string of a response without a "completion" field.
Completions == { <<"a", ".">>, <<>> }

\* The input list of n URLs; a URL is modelled by its identity.
Urls(n) == [p \in 1..n |-> p]

\* The value of mse before the metric is computed; <<m>> once it is m.
NoMetric == <<>>

\* The value of rscore before compute_readability is applied; <<s>> once it
\* returned s.
NoScore == <<>>

VARIABLES
    urls,             \* process_documentation's argument
    pc,               \* where process_documentation is
    u,                \* the position in urls of the URL being processed
    content,          \* the body fetched for the current URL
    improved_text,    \* the Improvement Analyzer's answer for the current URL
    original_scores,
    improved_scores,
    improved_docs,
    mse,              \* the aggregate metric, once computed
    k,                \* enumerate's index i in the save loop (0-based)
    files,            \* the file system: filename -> content
    calls,            \* the network calls made so far, in order
    saved,            \* the save_to_file calls made so far, in order
    rtext,            \* the input of a stand-alone compute_readability call
    rscore            \* its result

vars == <<urls, pc, u, content, improved_text, original_scores, improved_scores,
          improved_docs, mse, k, files, calls, saved, rtext, rscore>>

pipeline == <<urls, pc, u, content, improved_text, original_scores,
              improved_scores, improved_docs, mse, k, files, calls, saved>>

\* The state at the first line of the loop body, or at the metric when the
\* list is empty.
Init ==
    /\ urls \in {Urls(n) : n \in 0..MaxUrls}
    /\ pc = IF urls = <<>> THEN "metric" ELSE "fetch"
    /\ u = 1
    /\ content = <<>>
    /\ improved_text = <<>>
    /\ original_scores = <<>>
    /\ improved_scores = <<>>
    /\ improved_docs = <<>>
    /\ mse = NoMetric
    /\ k = 0
    /\ files = <<>>
    /\ calls = <<>>
    /\ saved = <<>>
    /\ rtext = <<>>
    /\ rscore = NoScore

Call(op, ok, result) == [op |-> op, pos |-> u, url |-> urls[u], ok |-> ok, result |-> result]

\* The for loop moves to the next URL, or leaves the loop after the last one.
NextUrl ==
    /\ u' = u + 1
    /\ pc' = IF u < Len(urls) THEN "fetch" ELSE "metric"

\* The except clause of the loop body: log, then go on with the next URL.
ExceptContinue == NextUrl

\* fetch_content returns; the original score is appended at once.
FetchContentOk(c) ==
    /\ pc = "fetch"
    /\ calls' = Append(calls, Call("fetch_content", TRUE, c))
    /\ content' = c
    /\ original_scores' = Append(original_scores, compute_readability(c))
    /\ pc' = "analyze"
    /\ UNCHANGED <<urls, u, improved_text, improved_scores, improved_docs, mse, k,
                   files, saved, rtext, rscore>>

\* The variant in which a failed fetch ends the loop.
FetchContentFail_abort ==
    /\ pc = "fetch"
    /\ calls' = Append(calls, Call("fetch_content", FALSE, <<>>))
    /\ u' = u + 1
    /\ pc' = "metric"
    /\ UNCHANGED <<urls, content, improved_text, original_scores, improved_scores,
                   improved_docs, mse, k, files, saved, rtext, rscore>>

\* fetch_content raises (transport error or error status).
FetchContentFail ==
    /\ pc = "fetch"
    /\ calls' = Append(calls, Call("fetch_content", FALSE, <<>>))
    /\ ExceptContinue
    /\ UNCHANGED <<urls, content, improved_text, original_scores, improved_scores,
                   improved_docs, mse, k, files, saved, rtext, rscore>>

\* analyze_documentation returns the completion t.
AnalyzeOk(t) ==
    /\ pc = "analyze"
    /\ calls' = Append(calls, Call("analyze_documentation", TRUE, t))
    /\ improved_text' = t
    /\ pc' = "visuals"
    /\ UNCHANGED <<urls, u, content, original_scores, improved_scores, improved_docs,
                   mse, k, files, saved, rtext, rscore>>

\* The variant in which a failed analysis is taken as an empty answer.
AnalyzeFail_goes_on ==
    /\ pc = "analyze"
    /\ calls' = Append(calls, Call("analyze_documentation", FALSE, <<>>))
    /\ improved_text' = <<>>
    /\ pc' = "visuals"
    /\ UNCHANGED <<urls, u, content, original_scores, improved_scores, improved_docs,
                   mse, k, files, saved, rtext, rscore>>

\* analyze_documentation raises (anthropic_analysis logs and re-raises).
AnalyzeFail ==
    /\ pc = "analyze"
    /\ calls' = Append(calls, Call("analyze_documentation", FALSE, <<>>))
    /\ ExceptContinue
    /\ UNCHANGED <<urls, content, improved_text, original_scores, improved_scores,
                   improved_docs, mse, k, files, saved, rtext, rscore>>

\* "# Improved Documentation\n\n", character by character.
HeaderImproved ==
    <<"#", " ", "I", "m", "p", "r", "o", "v", "e", "d", " ", "D", "o", "c",
      "u", "m", "e", "n", "t", "a", "t", "i", "o", "n", "\n", "\n">>

\* "\n\n# Visual Suggestions\n\n", character by character.
HeaderVisuals ==
    <<"\n", "\n", "#", " ", "V", "i", "s", "u", "a", "l", " ", "S", "u", "g",
      "g", "e", "s", "t", "i", "o", "n", "s", "\n", "\n">>

\* The f-string that composes the enhanced document.
EnhancedDoc(text, visuals) ==
    HeaderImproved \o text \o HeaderVisuals \o visuals

\* The variant that appends the document and no improved score.
VisualsOk_no_score(v) ==
    /\ pc = "visuals"
    /\ calls' = Append(calls, Call("suggest_visuals", TRUE, v))
    /\ improved_docs' = Append(improved_docs, EnhancedDoc(improved_text, v))
    /\ NextUrl
    /\ UNCHANGED <<urls, content, improved_text, original_scores, improved_scores,
                   mse, k, files, saved, rtext, rscore>>

\* suggest_visuals returns v: the document is composed and appended, and the
\* improved score (of the improvement text alone) is appended.
VisualsOk(v) ==
    /\ pc = "visuals"
    /\ calls' = Append(calls, Call("suggest_visuals", TRUE, v))
    /\ improved_docs' = Append(improved_docs, EnhancedDoc(improved_text, v))
    /\ improved_scores' = Append(improved_scores, compute_readability(improved_text))
    /\ NextUrl
    /\ UNCHANGED <<urls, content, improved_text, original_scores, mse, k, files,
                   saved, rtext, rscore>>

\* suggest_visuals raises.
VisualsFail ==
    /\ pc = "visuals"
    /\ calls' = Append(calls, Call("suggest_visuals", FALSE, <<>>))
    /\ ExceptContinue
    /\ UNCHANGED <<urls, content, improved_text, original_scores, improved_scores,
                   improved_docs, mse, k, files, saved, rtext, rscore>>

\* mean_squared_error returns; the three log lines follow.
ComputeMetricOk ==
    /\ pc = "metric"
    /\ ~MetricRaises(original_scores, improved_scores)
    /\ mse' = <<mean_squared_error(original_scores, improved_scores)>>
    /\ pc' = IF improved_docs = <<>> THEN "done" ELSE "save"
    /\ UNCHANGED <<urls, u, content, improved_text, original_scores, improved_scores,
                   improved_docs, k, files, calls, saved, rtext, rscore>>

\* The variant in which the error of the metric is swallowed.
ComputeMetricRaise_swallowed ==
    /\ pc = "metric"
    /\ MetricRaises(original_scores, improved_scores)
    /\ pc' = IF improved_docs = <<>> THEN "done" ELSE "save"
    /\ UNCHANGED <<urls, u, content, improved_text, original_scores, improved_scores,
                   improved_docs, mse, k, files, calls, saved, rtext, rscore>>

\* mean_squared_error raises: nothing catches it, the process ends.
ComputeMetricRaise ==
    /\ pc = "metric"
    /\ MetricRaises(original_scores, improved_scores)
    /\ pc' = "crashed"
    /\ UNCHANGED <<urls, u, content, improved_text, original_scores, improved_scores,
                   improved_docs, mse, k, files, calls, saved, rtext, rscore>>

\* The variant that numbers the files from 0.
Filename_zero_based(i) == "improved_doc_" \o ToString(i) \o ".md"

\* f"improved_doc_{i + 1}.md"
Filename(i) == "improved_doc_" \o ToString(i + 1) \o ".md"

\* The file system with `name` holding `text`.
WriteFile(name, text) ==
    [f \in DOMAIN files \cup {name} |-> IF f = name THEN text ELSE files[f]]

\* One call of save_to_file and how it ended: "ok", "open" (open() raised)
\* or "write" (f.write or the closing of the file raised).
SaveCall(outcome) ==
    [filename |-> Filename(k), content |-> improved_docs[k + 1],
     ok |-> outcome = "ok", outcome |-> outcome]

\* The save loop moves to the next document, or the function returns.
NextDoc ==
    /\ k' = k + 1
    /\ pc' = IF k + 1 < Len(improved_docs) THEN "save" ELSE "done"

\* save_to_file writes the document.
SaveOk ==
    /\ pc = "save"
    /\ saved' = Append(saved, SaveCall("ok"))
    /\ files' = WriteFile(Filename(k), improved_docs[k + 1])
    /\ NextDoc
    /\ UNCHANGED <<urls, u, content, improved_text, original_scores, improved_scores,
                   improved_docs, mse, calls, rtext, rscore>>

\* The variant in which the error of open() leaves save_to_file.
SaveOpenError_propagates ==
    /\ pc = "save"
    /\ saved' = Append(saved, SaveCall("open"))
    /\ pc' = "crashed"
    /\ UNCHANGED <<urls, u, content, improved_text, original_scores, improved_scores,
                   improved_docs, mse, k, files, calls, rtext, rscore>>

\* open() raises: save_to_file logs the error and returns.
SaveOpenError ==
    /\ pc = "save"
    /\ saved' = Append(saved, SaveCall("open"))
    /\ NextDoc
    /\ UNCHANGED <<urls, u, content, improved_text, original_scores, improved_scores,
                   improved_docs, mse, files, calls, rtext, rscore>>

\* The numbers of characters a failed write can leave in the file.
WritePrefixes == IF pc = "save" THEN 0..Len(improved_docs[k + 1]) ELSE {}

\* The writes that have failed so far.
WriteErrors == Cardinality({j \in 1..Len(saved) : saved[j].outcome = "write"})

\* The write raises after open() truncated the file and n characters of the
\* document reached it: save_to_file logs the error and returns.
SaveWriteError(n) ==
    /\ pc = "save"
    /\ WriteErrors < MaxWriteErrors
    /\ saved' = Append(saved, SaveCall("write"))
    /\ files' = WriteFile(Filename(k), SubSeq(improved_docs[k + 1], 1, n))
    /\ NextDoc
    /\ UNCHANGED <<urls, u, content, improved_text, original_scores, improved_scores,
                   improved_docs, mse, calls, rtext, rscore>>

Next ==
    \/ \E c \in Contents : FetchContentOk(c)
    \/ FetchContentFail
    \/ \E t \in Completions : AnalyzeOk(t)
    \/ AnalyzeFail
    \/ \E v \in Completions : VisualsOk(v)
    \/ VisualsFail
    \/ ComputeMetricOk
    \/ ComputeMetricRaise
    \/ SaveOk
    \/ SaveOpenError
    \/ \E n \in WritePrefixes : SaveWriteError(n)

Spec == Init /\ [][Next]_vars

\* ------------------------------------- compute_readability on its own ---
InitReadability ==
    /\ rtext \in TextsUpTo(MaxLen)
    /\ rscore = NoScore
    /\ urls = <<>>
    /\ pc = "readability"
    /\ u = 1
    /\ content = <<>>
    /\ improved_text = <<>>
    /\ original_scores = <<>>
    /\ improved_scores = <<>>
    /\ improved_docs = <<>>
    /\ mse = NoMetric
    /\ k = 0
    /\ files = <<>>
    /\ calls = <<>>
    /\ saved = <<>>

\* One call compute_readability(rtext).
ComputeReadability ==
    /\ pc = "readability"
    /\ rscore = NoScore
    /\ rscore' = <<compute_readability(rtext)>>
    /\ UNCHANGED <<rtext, pipeline>>

NextReadability == ComputeReadability

SpecReadability == InitReadability /\ [][NextReadability]_vars

\* ------------------------------------------- what the logs tell ---
\* Call `op` was made for the URL at position p and ended ok / not ok.
Happened(op, p, ok) ==
    \E j \in 1..Len(calls) : calls[j].op = op /\ calls[j].pos = p /\ calls[j].ok = ok

\* The number of times `op` was called for the URL at position p.
CountCalls(op, p) ==
    Cardinality({j \in 1..Len(calls) : calls[j].op = op /\ calls[j].pos = p})

\* What the successful call `op` for the URL at position p returned.
ResultOf(op, p) ==
    LET j == CHOOSE j \in 1..Len(calls) :
                 calls[j].op = op /\ calls[j].pos = p /\ calls[j].ok
    IN  calls[j].result

FetchFailed(p) == Happened("fetch_content", p, FALSE)
FetchSucceeded(p) == Happened("fetch_content", p, TRUE)
AnalyzeFailed(p) == Happened("analyze_documentation", p, FALSE)
VisualsFailed(p) == Happened("suggest_visuals", p, FALSE)

\* Every step of the URL at position p succeeded.
FullySucceeded(p) == Happened("suggest_visuals", p, TRUE)

Positions == 1..Len(urls)

\* The positions of the fetch_content calls, in call order.
FetchOrder ==
    LET f == SelectSeq(calls, LAMBDA c : c.op = "fetch_content")
    IN  [j \in 1..Len(f) |-> f[j].pos]

\* The positions of the URLs whose document was appended, in append order.
DocOrigin ==
    LET f == SelectSeq(calls, LAMBDA c : c.op = "suggest_visuals" /\ c.ok)
    IN  [j \in 1..Len(f) |-> f[j].pos]

\* The URL loop is over.
LoopOver == pc \in {"metric", "save", "done", "crashed"}

\* process_documentation has ended, by returning or by an unhandled error.
Terminated == pc \in {"done", "crashed"}

\* No score is NaN.
ScoresDefined == NaN \notin Range(original_scores) \cup Range(improved_scores)

\* -------------------------------------------------------------- claims ---

\* C1: when process_documentation reaches the aggregate-metric step, the
\* original-scores and the improved-scores sequences have the same length,
\* the number of URLs whose processing fully succeeded, whatever the per-URL
\* outcomes were.  (Violated: the original score is appended before the
\* model calls.)
C1_SameLengthAtMetric ==
    pc = "metric" =>
        /\ Len(original_scores) = Len(improved_scores)
        /\ Len(original_scores) = Cardinality({p \in Positions : FullySucceeded(p)})

\* C2: a URL whose fetch_content call fails appends nothing to the three
\* accumulators (original_scores holds one entry per successful fetch, the
\* other two one per URL that succeeded to the end), the call that follows a
\* failed fetch is the fetch of the next URL, so no model call is made for
\* the failed one, and every URL of the list is fetched, in order.
C2_FetchFailureIsolated ==
    LET fetched == SelectSeq(calls, LAMBDA c : c.op = "fetch_content" /\ c.ok)
        finished == SelectSeq(calls, LAMBDA c : c.op = "suggest_visuals" /\ c.ok)
        order == FetchOrder
    IN  /\ \A j \in 1..Len(calls) :
              (calls[j].op = "fetch_content" /\ ~calls[j].ok) =>
                  /\ calls[j].pos < u
                  /\ j < Len(calls) =>
                        /\ calls[j + 1].op = "fetch_content"
                        /\ calls[j + 1].pos = calls[j].pos + 1
        /\ Len(original_scores) = Len(fetched)
        /\ Len(improved_scores) = Len(finished)
        /\ Len(improved_docs) = Len(finished)
        /\ \A j \in 1..Len(order) : order[j] = j
        /\ LoopOver => Len(order) = Len(urls)

\* A fetch failed, and a later URL was processed to the end and saved.
C2_Witness ==
    /\ pc = "done"
    /\ \E p, q \in Positions : p < q /\ FetchFailed(p) /\ FullySucceeded(q)

\* C3: the j-th save_to_file call is for improved_doc_<j>.md and the j-th
\* document appended; a successful call leaves the file holding that
\* document; when the run returns there was one call per document.  The
\* number is the document's place in improved_docs, not its URL's place in
\* the input list.
C3_SequentialFilenames ==
    LET origin == DocOrigin
    IN  /\ Len(saved) <= Len(improved_docs)
        /\ \A j \in 1..Len(saved) :
              /\ saved[j].filename = "improved_doc_" \o ToString(j) \o ".md"
              /\ saved[j].content = improved_docs[j]
              /\ saved[j].content =
                     EnhancedDoc(ResultOf("analyze_documentation", origin[j]),
                                 ResultOf("suggest_visuals", origin[j]))
              /\ saved[j].ok => /\ saved[j].filename \in DOMAIN files
                                /\ files[saved[j].filename] = improved_docs[j]
        /\ DOMAIN files \subseteq {saved[j].filename : j \in 1..Len(saved)}
        /\ pc = "done" => Len(saved) = Len(improved_docs)

\* The document of the third URL was written to improved_doc_2.md after an
\* earlier URL failed.
C3_Witness ==
    /\ pc = "done"
    /\ Len(saved) = 2
    /\ saved[2].ok
    /\ saved[2].filename = "improved_doc_2.md"
    /\ DocOrigin[2] = 3

\* C4: once the URL loop has finished, every document appended to
\* improved_docs is passed to save_to_file, so a terminated run has made one
\* call per document, even when other URLs failed.  Stated for runs in which
\* every score is a number.  (Violated: a URL that fails after its fetch
\* leaves the score sequences of different lengths, the metric raises and no
\* document is saved.)
C4_EveryDocSaved ==
    (Terminated /\ ScoresDefined) => Len(saved) = Len(improved_docs)

\* The place of a call in the processing of one URL.
Stage(op) ==
    CASE op = "fetch_content" -> 1
      [] op = "analyze_documentation" -> 2
      [] op = "suggest_visuals" -> 3

\* C5: a failed model call ends the processing of its URL: the call that
\* follows it is the fetch of the next URL (no suggest_visuals after a failed
\* analyze_documentation, no retry), the loop has moved on, the URL has no
\* document and no improved score (each holds one entry per successful
\* suggest_visuals), and every URL of the list is reached.  A successful
\* call is followed by the next step of the same URL.
C5_ModelFailureIsolated ==
    LET finished == SelectSeq(calls, LAMBDA c : c.op = "suggest_visuals" /\ c.ok)
        n == Len(calls)
    IN  /\ \A j \in 1..n :
              IF calls[j].ok /\ Stage(calls[j].op) < 3
              THEN j < n => /\ calls[j + 1].pos = calls[j].pos
                            /\ Stage(calls[j + 1].op) = Stage(calls[j].op) + 1
              ELSE /\ calls[j].pos < u
                   /\ j < n => /\ calls[j + 1].pos = calls[j].pos + 1
                               /\ calls[j + 1].op = "fetch_content"
        /\ n > 0 => calls[1].op = "fetch_content" /\ calls[1].pos = 1
        /\ Len(improved_docs) = Len(finished)
        /\ Len(improved_scores) = Len(finished)
        /\ LoopOver => (urls = <<>> /\ n = 0) \/ (n > 0 /\ calls[n].pos = Len(urls))

\* Both kinds of model failure happened, and a later URL went through.
C5_Witness ==
    \E p, q, r \in Positions :
        /\ p < r /\ q < r
        /\ AnalyzeFailed(p) /\ VisualsFailed(q) /\ FullySucceeded(r)

\* C6: a save_to_file call, failed or not, leaves process_documentation in
\* its save loop or at its end, never in an error; the loop goes on with the
\* next document, and the accumulators are untouched.
C6_SaveFailureSwallowed ==
    [][ (pc = "save" /\ Len(saved') = Len(saved) + 1 /\ ~saved'[Len(saved')].ok) =>
           /\ pc' = IF Len(saved') < Len(improved_docs) THEN "save" ELSE "done"
           /\ k' = Len(saved')
           /\ UNCHANGED <<original_scores, improved_scores, improved_docs, mse>>
      ]_vars

\* A write failed and a later document was still written.
C6_Witness ==
    /\ pc = "done"
    /\ \E i, j \in 1..Len(saved) : i < j /\ ~saved[i].ok /\ saved[j].ok

\* The run of C7: three URLs, the fetch of the second fails, the first and
\* the third succeed in every step (their scores are numbers), and the run
\* has ended.
C7_Scenario ==
    /\ Len(urls) = 3
    /\ FetchFailed(2)
    /\ FullySucceeded(1)
    /\ FullySucceeded(3)
    /\ ScoresDefined
    /\ Terminated

\* C7: that run ends with two original scores, two improved scores (those of
\* URLs 1 and 3), the metric over those two pairs, and two save_to_file
\* calls: improved_doc_1.md with the document of URL 1 and improved_doc_2.md
\* with the document of URL 3.
C7_EndToEnd ==
    C7_Scenario =>
        /\ pc = "done"
        /\ original_scores = << compute_readability(ResultOf("fetch_content", 1)),
                                compute_readability(ResultOf("fetch_content", 3)) >>
        /\ improved_scores = << compute_readability(ResultOf("analyze_documentation", 1)),
                                compute_readability(ResultOf("analyze_documentation", 3)) >>
        /\ LET t == FracAdd(FracSqDiff(original_scores[1], improved_scores[1]),
                            FracSqDiff(original_scores[2], improved_scores[2]))
           IN  mse = << Frac(t.num, 2 * t.den) >>
        /\ Len(saved) = 2
        /\ saved[1].filename = "improved_doc_1.md"
        /\ saved[1].content = HeaderImproved
                                  \o ResultOf("analyze_documentation", 1)
                                  \o HeaderVisuals
                                  \o ResultOf("suggest_visuals", 1)
        /\ saved[2].filename = "improved_doc_2.md"
        /\ saved[2].content = HeaderImproved
                                  \o ResultOf("analyze_documentation", 3)
                                  \o HeaderVisuals
                                  \o ResultOf("suggest_visuals", 3)

\* The run of C7 has ended, with a metric that is not 0 and two different
\* documents.
C7_Witness ==
    /\ C7_Scenario
    /\ mse = << [num |-> 1, den |-> 4] >>
    /\ Len(saved) = 2
    /\ saved[1].content # saved[2].content

\* A character that belongs to a word.
IsWordChar(c) == c \notin Whitespace \cup {Period}

\* The places of t where a word starts.
WordStarts(t) ==
    {i \in 1..Len(t) : IsWordChar(t[i]) /\ (i = 1 \/ ~IsWordChar(t[i - 1]))}

\* The places of t where the first word of a period-delimited segment starts:
\* every earlier word is cut off from it by a period.
SegmentStarts(t) ==
    {i \in 1..Len(t) :
        /\ IsWordChar(t[i])
        /\ \A j \in 1..(i - 1) :
              IsWordChar(t[j]) => \E m \in (j + 1)..(i - 1) : t[m] = Period}

\* C8: for a text with at least one non-empty trimmed segment,
\* compute_readability returns (number of words) / (number of such segments);
\* empty and whitespace-only segments do not count, and one sentence of W
\* words yields W.
C8_MeanWordsPerSentence ==
    (rscore # NoScore /\ SegmentStarts(rtext) # {}) =>
        LET words == Cardinality(WordStarts(rtext))
            segments == Cardinality(SegmentStarts(rtext))
            score == rscore[1]
        IN  /\ score # NaN
            /\ score.den > 0
            /\ score.num * segments = words * score.den
            /\ segments = 1 => score = [num |-> words, den |-> 1]

\* A text with sentences of different lengths and an empty segment between
\* two periods has been scored 3/2.
C8_Witness ==
    /\ rscore = << [num |-> 3, den |-> 2] >>
    /\ \E i \in 1..(Len(rtext) - 1) : rtext[i] = Period /\ rtext[i + 1] = Period

\* C9: save_to_file is called only after the metric has been computed, over
\* score sequences of the same positive length; a run whose metric raised has
\* ended in the unhandled error with no call made and no file written, even
\* with documents in improved_docs.
C9_NoSaveBeforeMetric ==
    /\ (saved # <<>> \/ DOMAIN files # {}) => pc \in {"save", "done"}
    /\ pc \in {"save", "done"} =>
          /\ mse # NoMetric
          /\ Len(original_scores) = Len(improved_scores)
          /\ Len(original_scores) > 0
          /\ ScoresDefined
    /\ pc = "crashed" =>
          /\ saved = <<>>
          /\ DOMAIN files = {}
          /\ mse = NoMetric

\* The metric raised on sequences of different lengths: the run ended with a
\* document composed and nothing written.
C9_Witness ==
    /\ pc = "crashed"
    /\ improved_docs # <<>>
    /\ Len(original_scores) # Len(improved_scores)
    /\ saved = <<>>

\* C10: at every iteration boundary of the URL loop, improved_docs and
\* improved_scores have the same length, at most that of original_scores,
\* and the difference is the number of URLs processed so far whose fetch
\* succeeded and whose analysis or visuals call failed.
C10_LoopInvariant ==
    pc \in {"fetch", "metric"} =>
        /\ Len(improved_docs) = Len(improved_scores)
        /\ Len(improved_scores) <= Len(original_scores)
        /\ Len(original_scores) - Len(improved_scores) =
               Cardinality({p \in 1..(u - 1) :
                   FetchSucceeded(p) /\ (AnalyzeFailed(p) \/ VisualsFailed(p))})

\* An iteration boundary with two more original scores than improved ones.
C10_Witness ==
    /\ pc \in {"fetch", "metric"}
    /\ improved_scores # <<>>
    /\ Len(original_scores) = Len(improved_scores) + 2

=============================================================================
